---- MODULE Spec2Model ----
(***************************************************************************)
(* mcumgr-client: the upload engine, the one-shot operations and the       *)
(* request/response validation of src/image.rs, src/default.rs and        *)
(* src/transfer.rs, modelled at the level of whole frames.                 *)
(*                                                                         *)
(* Numbers of type usize are integers read modulo 2^64: a negative value v *)
(* stands for 2^64 + v, so that plain integer + and - are the wrapping     *)
(* operations and only comparisons and overflow checks need care.          *)
(* A CBOR integer (i128) sent by the device in the rc field is a record    *)
(* [q, r] standing for q * 2^32 + r with -2^31 <= r < 2^31.                *)
(***************************************************************************)
EXTENDS Integers, Sequences, FiniteSets, TLC

\* ------------------------------------------------------------------ bounds
MaxFileLen == 8
MaxRetry == 1
MaxChunks == 3
MaxWire == 1
MaxThreads == 2
MaxCalls == 257
MaxBodyLen == 3

\* ------------------------------------------------------- program constants
Slot == 1
HdrLen == 8
ShaLen == 32
SeqModulus == 256
U16Modulus == 65536

\* Option<T>
Some(v) == [some |-> TRUE, v |-> v]
None == [some |-> FALSE, v |-> 0]

\* ---------------------------------------------------------------- nmp_hdr
NmpOps == {"Read", "ReadRsp", "Write", "WriteRsp"}
NmpGroups == {"Default", "Image"}

NmpIdImage == [State |-> 0, Upload |-> 1, Erase |-> 5]
NmpIdDefault == [Echo |-> 0, Reset |-> 5]

new_req(op, group, id) ==
    [op |-> op, flags |-> 0, len |-> 0, group |-> group, seq |-> 0, id |-> id]

NoHdr == new_req("Read", "Default", 0)

\* ------------------------------------------------------- usize arithmetic
\* a > b on usize values
UGt(a, b) == IF (a < 0) = (b < 0) THEN a > b ELSE a < 0

\* a + b does not fit in usize
UAddOverflows(a, b) ==
    IF a < 0 /\ b < 0 THEN TRUE
    ELSE IF a >= 0 /\ b >= 0 THEN FALSE
    ELSE a + b >= 0

\* a - b is below zero
USubOverflows(a, b) == UGt(b, a)

Min(a, b) == IF a < b THEN a ELSE b

\* ------------------------------------------------------------ i128 values
I128(q, r) == [q |-> q, r |-> r]
I128Zero == I128(0, 0)

\* v as u32: the low 32 bits, as a non-negative value
AsU32(v) == IF v.r >= 0 THEN I128(0, v.r) ELSE I128(1, v.r)

\* ------------------------------------------------------ serde_cbor::Value
\* the value stored under a key of the response map: missing, an Integer or
\* a value of another type
CborAbsent == [t |-> "absent", q |-> 0, r |-> 0]
CborText == [t |-> "text", q |-> 0, r |-> 0]
CborInt(q, r) == [t |-> "int", q |-> q, r |-> r]
IntOf(c) == I128(c.q, c.r)

\* ------------------------------------------------------------------- CBOR
\* bytes of the head of a CBOR item whose argument is v (v < 2^32)
CborHeadLen(v) ==
    IF v < 24 THEN 1
    ELSE IF v < 256 THEN 2
    ELSE IF v < 65536 THEN 3
    ELSE 5

CborTextLen(n) == CborHeadLen(n) + n
CborBytesLen(n) == CborHeadLen(n) + n

\* SHA-256 of the file: an opaque digest of ShaLen bytes that names its input
Sha256(d) == <<"sha256", d>>

\* serde_cbor::to_vec(&ImageUploadReq): a map of the fields that are present
ImageUploadReqLen(req) ==
    1
    + CborTextLen(4) + CborBytesLen(Len(req.data))
    + CborTextLen(5) + CborHeadLen(req.image_num)
    + (IF req.len.some THEN CborTextLen(3) + CborHeadLen(req.len.v) ELSE 0)
    + CborTextLen(3) + CborHeadLen(req.off)
    + (IF req.data_sha.some THEN CborTextLen(3) + CborBytesLen(ShaLen) ELSE 0)

\* ---------------------------------------------------------- encode_request
Base64Len(n) == 4 * ((n + 2) \div 3)

\* number of bytes of the lines the loop of encode_request writes
RECURSIVE FramedLen(_, _, _)
FramedLen(linelength, totlen, written) ==
    IF written < totlen
    THEN LET write_len == Min(linelength - 4, totlen - written)
         IN  2 + write_len + 1 + FramedLen(linelength, totlen, written + write_len)
    ELSE 0

encode_request(linelength, op, group, id, bodyLen, seq) ==
    LET request_header == [new_req(op, group, id) EXCEPT
                              !.seq = seq, !.len = bodyLen % U16Modulus]
        serialized == HdrLen + bodyLen + 2
        framed == 2 + serialized
    IN  [hdr |-> request_header,
         len16 |-> serialized % U16Modulus,
         wire |-> FramedLen(linelength, Base64Len(framed), 0)]


\* ------------------------------------------------- the frame codec, in bytes
\* the u8 / u16 values of the enums
OpCode(op) ==
    CASE op = "Read" -> 0 [] op = "ReadRsp" -> 1 [] op = "Write" -> 2
      [] op = "WriteRsp" -> 3
NmpGroupCodes ==
    [Default |-> 0, Image |-> 1, Stat |-> 2, Config |-> 3, Log |-> 4,
     Crash |-> 5, Split |-> 6, Run |-> 7, Fs |-> 8, Shell |-> 9, PerUser |-> 64]
GroupCode(group) == NmpGroupCodes[group]

\* write_u16::<BigEndian> and read_u16
U16Bytes(v) == <<v \div 256, v % 256>>
ReadU16(b, i) == b[i] * 256 + b[i + 1]

\* a serialize that writes len with the low byte first
serialize_le(hdr) ==
    <<OpCode(hdr.op), hdr.flags, hdr.len % 256, hdr.len \div 256>>
        \o U16Bytes(GroupCode(hdr.group)) \o <<hdr.seq, hdr.id>>

\* NmpHdr::serialize
serialize(hdr) ==
    <<OpCode(hdr.op), hdr.flags>> \o U16Bytes(hdr.len)
        \o U16Bytes(GroupCode(hdr.group)) \o <<hdr.seq, hdr.id>>

\* NmpHdr::deserialize on the bytes left in the cursor: a read past the end
\* is an Err, from_u8 / from_u16 of a value outside the enum is None, which
\* the unwrap turns into a panic
deserialize(bytes) ==
    IF Len(bytes) < 1 THEN [out |-> "error", hdr |-> NoHdr]
    ELSE IF \A o \in NmpOps : OpCode(o) # bytes[1]
    THEN [out |-> "panic", hdr |-> NoHdr]
    ELSE IF Len(bytes) < 6 THEN [out |-> "error", hdr |-> NoHdr]
    ELSE IF \A g \in DOMAIN NmpGroupCodes : GroupCode(g) # ReadU16(bytes, 5)
    THEN [out |-> "panic", hdr |-> NoHdr]
    ELSE IF Len(bytes) < 8 THEN [out |-> "error", hdr |-> NoHdr]
    ELSE [out |-> "ok",
          hdr |-> [op |-> CHOOSE o \in NmpOps : OpCode(o) = bytes[1],
                   flags |-> bytes[2],
                   len |-> ReadU16(bytes, 3),
                   group |-> CHOOSE g \in DOMAIN NmpGroupCodes :
                                 GroupCode(g) = ReadU16(bytes, 5),
                   seq |-> bytes[7],
                   id |-> bytes[8]]]

\* bitwise exclusive or of two 16-bit values, bit by bit
XorBit(a, b, w) == (((a \div w) + (b \div w)) % 2) * w
Xor(a, b) ==
    XorBit(a, b, 1) + XorBit(a, b, 2) + XorBit(a, b, 4) + XorBit(a, b, 8)
        + XorBit(a, b, 16) + XorBit(a, b, 32) + XorBit(a, b, 64)
        + XorBit(a, b, 128) + XorBit(a, b, 256) + XorBit(a, b, 512)
        + XorBit(a, b, 1024) + XorBit(a, b, 2048) + XorBit(a, b, 4096)
        + XorBit(a, b, 8192) + XorBit(a, b, 16384) + XorBit(a, b, 32768)

\* CRC16 XMODEM (polynomial 0x1021, initial value 0, most significant bit
\* first), one byte at a time: the eight shifts of a byte folded into one
\* step
CrcByte(crc, byte) ==
    LET x == Xor(crc \div 256, byte)
        y == Xor(x, x \div 16)
    IN  Xor(Xor(Xor((crc * 256) % U16Modulus, (y * 4096) % U16Modulus),
                y * 32),
            y)

\* the checksum state after each byte: the value so far and the bytes left
RECURSIVE CrcFold(_)
CrcFold(st) ==
    IF st.bytes = <<>> THEN st.crc
    ELSE CrcFold([crc |-> CrcByte(st.crc, Head(st.bytes)),
                  bytes |-> Tail(st.bytes)])

Crc16(crc, bytes) == CrcFold([crc |-> crc, bytes |-> bytes])

\* the standard base64 alphabet in ASCII and its padding character
B64Pad == 61
B64Char(v) ==
    IF v < 26 THEN 65 + v
    ELSE IF v < 52 THEN 97 + (v - 26)
    ELSE IF v < 62 THEN 48 + (v - 52)
    ELSE IF v = 62 THEN 43
    ELSE 47

\* the value of a symbol, -1 for a byte outside the alphabet
B64Val(c) ==
    IF c >= 65 /\ c <= 90 THEN c - 65
    ELSE IF c >= 97 /\ c <= 122 THEN c - 97 + 26
    ELSE IF c >= 48 /\ c <= 57 THEN c - 48 + 52
    ELSE IF c = 43 THEN 62
    ELSE IF c = 47 THEN 63
    ELSE -1

\* general_purpose::STANDARD.encode
RECURSIVE B64Encode(_)
B64Encode(b) ==
    IF b = <<>> THEN <<>>
    ELSE LET n == Len(b)
             b1 == b[1]
             b2 == IF n >= 2 THEN b[2] ELSE 0
             b3 == IF n >= 3 THEN b[3] ELSE 0
             c1 == B64Char(b1 \div 4)
             c2 == B64Char((b1 % 4) * 16 + b2 \div 16)
             c3 == B64Char((b2 % 16) * 4 + b3 \div 64)
             c4 == B64Char(b3 % 64)
         IN  IF n = 1 THEN <<c1, c2, B64Pad, B64Pad>>
             ELSE IF n = 2 THEN <<c1, c2, c3, B64Pad>>
             ELSE <<c1, c2, c3, c4>> \o B64Encode(SubSeq(b, 4, n))

\* general_purpose::STANDARD.decode: whole quads, canonical padding in the
\* last quad only, no trailing bits; anything else is a DecodeError
B64Fail == [ok |-> FALSE, bytes |-> <<>>]

RECURSIVE B64Quads(_)
B64Quads(t) ==
    IF t = <<>> THEN [ok |-> TRUE, bytes |-> <<>>]
    ELSE LET last == Len(t) = 4
             v1 == B64Val(t[1])
             v2 == B64Val(t[2])
             v3 == B64Val(t[3])
             v4 == B64Val(t[4])
             o1 == v1 * 4 + v2 \div 16
             o2 == (v2 % 16) * 16 + v3 \div 4
             o3 == (v3 % 4) * 64 + v4
         IN  IF v1 < 0 \/ v2 < 0 THEN B64Fail
             ELSE IF t[3] = B64Pad
             THEN IF last /\ t[4] = B64Pad /\ v2 % 16 = 0
                  THEN [ok |-> TRUE, bytes |-> <<o1>>]
                  ELSE B64Fail
             ELSE IF v3 < 0 THEN B64Fail
             ELSE IF t[4] = B64Pad
             THEN IF last /\ v3 % 4 = 0
                  THEN [ok |-> TRUE, bytes |-> <<o1, o2>>]
                  ELSE B64Fail
             ELSE IF v4 < 0 THEN B64Fail
             ELSE LET r == B64Quads(SubSeq(t, 5, Len(t)))
                  IN  IF r.ok
                      THEN [ok |-> TRUE, bytes |-> <<o1, o2, o3>> \o r.bytes]
                      ELSE B64Fail

B64Decode(t) == IF Len(t) % 4 # 0 THEN B64Fail ELSE B64Quads(t)

\* a line that takes linelength characters of text
write_len_whole_line(linelength, totlen, written) ==
    Min(linelength, totlen - written)

\* the characters of base64 text a line takes
write_len(linelength, totlen, written) ==
    Min(linelength - 4, totlen - written)

\* the loop of encode_request: the text in lines, each with its marker and
\* a line feed
RECURSIVE WrapLines(_, _, _)
WrapLines(linelength, text, written) ==
    IF written < Len(text)
    THEN LET n == write_len(linelength, Len(text), written)
         IN  (IF written = 0 THEN <<6, 9>> ELSE <<4, 20>>)
                 \o SubSeq(text, written + 1, written + n) \o <<10>>
                 \o WrapLines(linelength, text, written + n)
    ELSE <<>>

\* the header encode_request sends and returns
RequestHeader(op, group, id, body, seq) ==
    [new_req(op, group, id) EXCEPT !.seq = seq, !.len = Len(body) % U16Modulus]

\* the payload of the frame: the serialised header and the body
Payload(in) ==
    serialize(RequestHeader(in.op, in.group, in.id, in.body, in.seq)) \o in.body

\* the bytes encode_request returns
EncodeBytes(linelength, op, group, id, body, seq) ==
    LET payload == serialize(RequestHeader(op, group, id, body, seq)) \o body
        serialized == payload \o U16Bytes(Crc16(0, payload))
        framed == U16Bytes(Len(serialized) % U16Modulus) \o serialized
    IN  WrapLines(linelength, B64Encode(framed), 0)

\* the position of the first line feed at or after position i, 0 if none
FirstLf(stream, i) ==
    LET lfs == {j \in i..Len(stream) : stream[j] = 10}
    IN  IF lfs = {} THEN 0 ELSE CHOOSE j \in lfs : \A k \in lfs : j <= k

DecodeError(err) == [out |-> "error", err |-> err, data |-> <<>>]
DecodePanic == [out |-> "panic", err |-> "panic", data |-> <<>>]

\* transceive after the read loop: the length and the checksum are verified
VerifyFrame(decoded) ==
    LET len == ReadU16(decoded, 1)
    IN  IF len # Len(decoded) - 2 THEN DecodeError("wrong chunk length")
        ELSE IF Len(decoded) < 4 THEN DecodePanic
        ELSE LET data == SubSeq(decoded, 3, Len(decoded) - 2)
                 read_checksum == ReadU16(decoded, Len(decoded) - 1)
             IN  IF read_checksum # Crc16(0, data)
                 THEN DecodeError("wrong checksum")
                 ELSE [out |-> "ok", err |-> "none", data |-> data]

\* the read loop of transceive on the bytes the port delivers from position
\* pos: the marker, the text up to the line feed, the decoding of all text
\* read so far, the end test.  A read past the last byte times out.
RECURSIVE ReadFrame(_, _, _, _)
ReadFrame(stream, pos, result, expected_len) ==
    LET marker == IF Len(result) = 0 THEN <<6, 9>> ELSE <<4, 20>>
        lf == FirstLf(stream, pos + 2)
    IN  IF pos > Len(stream) THEN DecodeError("Operation timed out")
        ELSE IF stream[pos] # marker[1] THEN DecodeError("read error")
        ELSE IF pos + 1 > Len(stream) THEN DecodeError("Operation timed out")
        ELSE IF stream[pos + 1] # marker[2] THEN DecodeError("read error")
        ELSE IF lf = 0 THEN DecodeError("Operation timed out")
        ELSE LET text == result \o SubSeq(stream, pos + 2, lf - 1)
                 dec == B64Decode(text)
             IN  IF ~dec.ok THEN DecodeError("base64 decode error")
                 ELSE IF Len(dec.bytes) < 2 THEN DecodePanic
                 ELSE LET len == ReadU16(dec.bytes, 1)
                          expected == IF expected_len = 0 THEN len
                                      ELSE expected_len
                      IN  IF Len(dec.bytes) - 2 >= expected
                          THEN VerifyFrame(dec.bytes)
                          ELSE ReadFrame(stream, lf + 1, text, expected)

\* serial_port_encode: the frame of the interface layer for a payload
serial_port_encode(data, linelength) ==
    WrapLines(linelength,
              B64Encode(U16Bytes((Len(data) + 2) % U16Modulus) \o data
                            \o U16Bytes(Crc16(0, data))),
              0)

\* "stop when done" in serial_port_read_and_decode
stop_when_done(decoded_len, expected_len) == decoded_len >= expected_len

\* the read loop of serial_port_read_and_decode and the checks behind it
RECURSIVE serial_port_read_and_decode(_, _, _, _)
serial_port_read_and_decode(stream, pos, result, expected_len) ==
    LET marker == IF Len(result) = 0 THEN <<6, 9>> ELSE <<4, 20>>
        lf == FirstLf(stream, pos + 2)
    IN  IF pos > Len(stream) THEN DecodeError("Operation timed out")
        ELSE IF stream[pos] # marker[1] THEN DecodeError("read error")
        ELSE IF pos + 1 > Len(stream) THEN DecodeError("Operation timed out")
        ELSE IF stream[pos + 1] # marker[2] THEN DecodeError("read error")
        ELSE IF lf = 0 THEN DecodeError("Operation timed out")
        ELSE LET text == result \o SubSeq(stream, pos + 2, lf - 1)
                 dec == B64Decode(text)
             IN  IF ~dec.ok THEN DecodeError("base64 decode error")
                 ELSE IF Len(dec.bytes) < 2 THEN DecodePanic
                 ELSE LET len == ReadU16(dec.bytes, 1)
                          expected == IF expected_len = 0 THEN len
                                      ELSE expected_len
                      IN  IF stop_when_done(Len(dec.bytes), expected)
                          THEN VerifyFrame(dec.bytes)
                          ELSE serial_port_read_and_decode(stream, lf + 1,
                                                           text, expected)

\* serde_cbor::from_reader on the bytes behind the header, for bodies made of
\* one-byte items and break codes: one item and nothing behind it
CborOneByteItems == (0..23) \cup (32..55) \cup {64, 96, 128, 160, 244, 245, 246}
from_reader(bytes) ==
    IF bytes = <<>> THEN "EOF while parsing a value"
    ELSE IF bytes[1] \notin CborOneByteItems THEN "unexpected code"
    ELSE IF Len(bytes) > 1 THEN "trailing data"
    ELSE "ok"

\* transceive behind the read loop and the checks of the frame: the header
\* is deserialised and unwrapped, the rest is decoded as CBOR
ParseFrame(frame) ==
    IF frame.out # "ok"
    THEN [out |-> frame.out, err |-> frame.err, hdr |-> NoHdr, body |-> <<>>]
    ELSE LET h == deserialize(frame.data)
             body == SubSeq(frame.data, HdrLen + 1, Len(frame.data))
         IN  IF h.out # "ok"
             THEN [out |-> "panic", err |-> "panic", hdr |-> NoHdr, body |-> <<>>]
             ELSE IF from_reader(body) # "ok"
             THEN [out |-> "error", err |-> from_reader(body), hdr |-> NoHdr,
                   body |-> <<>>]
             ELSE [out |-> "ok", err |-> "none", hdr |-> h.hdr, body |-> body]

\* ------------------------------------------------- the bytes a device sends
\* a frame as encode_request makes it, of any payload and with any CRC
DeviceFrame(linelength, payload, crc) ==
    WrapLines(linelength,
              B64Encode(U16Bytes((Len(payload) + 2) % U16Modulus) \o payload
                            \o U16Bytes(crc)),
              0)

\* a 0D in front of every continuation marker
RECURSIVE CrBeforeMarkers(_, _)
CrBeforeMarkers(sent, i) ==
    IF i > Len(sent) THEN <<>>
    ELSE (IF i > 1 /\ sent[i - 1] = 10 THEN <<13, sent[i]>> ELSE <<sent[i]>>)
             \o CrBeforeMarkers(sent, i + 1)

\* the bytes on the port when the device answers the frame `sent` of the
\* arguments `in` with the deviation d
Deviated(in, sent, d) ==
    LET payload == Payload(in)
        ll == in.linelength
    IN  CASE d.kind = "none" -> sent
          [] d.kind = "hdr" ->
                 LET p == serialize(d.arg) \o in.body
                 IN  DeviceFrame(ll, p, Crc16(0, p))
          [] d.kind = "unknown_op" ->
                 LET p == <<d.arg>> \o Tail(payload)
                 IN  DeviceFrame(ll, p, Crc16(0, p))
          [] d.kind = "unknown_group" ->
                 LET p == SubSeq(payload, 1, 4) \o U16Bytes(d.arg)
                              \o SubSeq(payload, 7, Len(payload))
                 IN  DeviceFrame(ll, p, Crc16(0, p))
          [] d.kind = "crc_bit" ->
                 DeviceFrame(ll, payload, Xor(Crc16(0, payload), 2 ^ d.arg))
          [] d.kind = "short" ->
                 LET p == SubSeq(payload, 1, d.arg)
                 IN  DeviceFrame(ll, p, Crc16(0, p))
          [] d.kind = "empty" -> <<6, 9, 10>>
          [] d.kind = "underlength" ->
                 WrapLines(ll, B64Encode(SubSeq(<<0, d.arg - 2, 0>>, 1, d.arg)), 0)
          [] d.kind = "junk_before" -> <<d.arg>> \o sent
          [] d.kind = "cr_cont" -> CrBeforeMarkers(sent, 1)


\* ------------------------------------------------------------ check_answer
\* a validation that does not look at the sequence id
check_answer_no_seq(request_header, response_header) ==
    IF request_header.op \notin {"Read", "Write"} THEN FALSE
    ELSE LET expected_op_type ==
                 IF request_header.op = "Read" THEN "ReadRsp" ELSE "WriteRsp"
         IN  ~(response_header.op # expected_op_type
               \/ response_header.group # request_header.group)

check_answer(request_header, response_header) ==
    IF response_header.seq # request_header.seq THEN FALSE
    ELSE IF request_header.op \notin {"Read", "Write"} THEN FALSE
    ELSE LET expected_op_type ==
                 IF request_header.op = "Read" THEN "ReadRsp" ELSE "WriteRsp"
         IN  ~(response_header.op # expected_op_type
               \/ response_header.group # request_header.group)

\* ------------------------------------------------------------------ get_rc
\* Option<u32>: the rc of a response map, cast to u32
get_rc(response_body) ==
    IF response_body.map /\ response_body.rc.t = "int"
    THEN Some(AsU32(IntOf(response_body.rc)))
    ELSE [some |-> FALSE, v |-> I128Zero]

\* ------------------------------------------------------- upload: fit loop
File(n) == [i \in 1..n |-> i % 256]

\* a request that carries len and sha at every offset
UploadReqAlwaysMeta(data, off, chunk) ==
    [image_num |-> Slot,
     off |-> off,
     len |-> Some(Len(data)),
     data_sha |-> Some(Sha256(data)),
     data |-> chunk]

\* a request whose data field is taken from the start of the file
UploadReqFromStart(data, off, chunk) ==
    [image_num |-> Slot,
     off |-> off,
     len |-> IF off = 0 THEN Some(Len(data)) ELSE None,
     data_sha |-> IF off = 0 THEN Some(Sha256(data)) ELSE None,
     data |-> SubSeq(data, 1, Len(chunk))]

\* the ImageUploadReq of a chunk: len and sha go with the chunk at offset 0
UploadReq(data, off, chunk) ==
    [image_num |-> Slot,
     off |-> off,
     len |-> IF off = 0 THEN Some(Len(data)) ELSE None,
     data_sha |-> IF off = 0 THEN Some(Sha256(data)) ELSE None,
     data |-> chunk]

\* a test that lets a frame exceed the MTU by the four bytes of a line
too_long_slack(chunk_len, mtu) == chunk_len > mtu + 4

\* "test if too long": the framed request exceeds the MTU
too_long(chunk_len, mtu) == chunk_len > mtu

\* a test that never declares the MTU too small
mtu_too_small_never(reduce, try_length) == FALSE

\* the excess is more than the chunk holds: "MTU too small"
mtu_too_small(reduce, try_length) == UGt(reduce, try_length)

\* one iteration of the inner loop of upload up to the test of the frame
\* length: the clamp of try_length, the slice, the request and its frame
FitIteration(build, specs, data, off, try_length, seq_id) ==
    LET len == Len(data)
        ovf1 == UAddOverflows(off, try_length)
        clamp == UGt(off + try_length, len)
        ovf2 == clamp /\ USubOverflows(len, off)
        tl == IF clamp THEN len - off ELSE try_length
        ovf3 == UAddOverflows(off, tl)
        sliceOk == ~UGt(off, off + tl) /\ ~UGt(off + tl, len)
        chunk == SubSeq(data, off + 1, off + tl)
        req == UploadReq(data, off, chunk)
        enc == encode_request(specs.linelength, "Write", "Image",
                              NmpIdImage.Upload, ImageUploadReqLen(req), seq_id)
        reduce == enc.wire - specs.mtu
        cut == (reduce * 3) \div 4 + 3
    IN  IF build = "debug" /\ (ovf1 \/ ovf2 \/ ovf3)
        THEN [out |-> "panic", try_length |-> try_length]
        ELSE IF ~sliceOk
        THEN [out |-> "panic", try_length |-> tl]
        ELSE IF too_long(enc.wire, specs.mtu)
        THEN IF mtu_too_small(reduce, tl)
             THEN [out |-> "bail", try_length |-> tl]
             ELSE IF build = "debug" /\ USubOverflows(tl, cut)
             THEN [out |-> "panic", try_length |-> tl]
             ELSE [out |-> "continue", try_length |-> tl - cut]
        ELSE [out |-> "send", try_length |-> tl,
              request |-> [hdr |-> enc.hdr, len16 |-> enc.len16,
                           wire |-> enc.wire, body |-> req]]


\* ------------------------------------------------------------------- state
VARIABLES
    cmd,              \* the operation the caller runs
    specs,            \* SerialSpecs: nb_retry, linelength, mtu
    data,             \* the bytes of the file to upload
    build,            \* "debug": overflow checks panic, "release": they wrap
    dev,              \* the device at the other end: [kind, k]
    COUNTER,          \* next_seq_id: [init, v]
    pc,               \* where the operation stands
    off, off_start, try_length, nb_retry, seq_id,
    sent_blocks, confirmed_blocks,
    request,          \* the request built last: header, frame length, body
    timeout,          \* the read timeout set on the port
    progress,         \* the calls of the progress callback, in order
    result,           \* what the operation returned: [msg, rc]
    written,          \* the requests written to the port, in order
    wire,             \* responses the device has sent that have not arrived
    inbuf,            \* responses that wait in the input buffer of the port
    total_len,        \* device: the length announced by the first chunk
    missed,           \* device: requests of the current chunk left unanswered
    chunkNo,          \* number of chunks started
    lastResp,         \* the response transceive returned for this chunk
    validated,        \* outcome of the validation of lastResp
    tpc,              \* callers of next_seq_id: where each thread stands
    ids,              \* the values fetch_add returned, in the order of the adds
    inits,            \* number of runs of the initialiser of COUNTER
    wrapIn,           \* frame codec: the arguments of encode_request
    wrapped,          \* frame codec: the bytes encode_request returned
    unwrapped,        \* frame codec: what the decoder of transceive made of them
    deviation,        \* frame codec: how the bytes on the port differ from them
    stream,           \* frame codec: the bytes the port delivers to transceive
    parsed,           \* frame codec: what transceive returns
    interfaced,       \* frame codec: what serial_port_read_and_decode returns
    fitIn,            \* fit loop alone: mtu, linelength, file size, seq, build
    fitted            \* fit loop alone: the outcome of the iterations so far

vars == <<cmd, specs, data, build, dev, COUNTER, pc, off, off_start,
          try_length, nb_retry, seq_id, sent_blocks, confirmed_blocks,
          request, timeout, progress, result, written, wire, inbuf,
          total_len, missed, chunkNo, lastResp, validated,
          tpc, ids, inits, wrapIn, wrapped, unwrapped, deviation, stream,
          parsed, interfaced, fitIn, fitted>>

config == <<cmd, specs, data, build, dev>>
uploadVars == <<off, off_start, try_length, nb_retry, seq_id, sent_blocks,
                confirmed_blocks, progress, chunkNo>>
portVars == <<written, wire, inbuf, total_len, missed>>
seqVars == <<tpc, ids, inits>>
codecVars == <<wrapIn, wrapped, unwrapped, deviation, stream, parsed,
               interfaced>>
fitVars == <<fitIn, fitted>>

\* ----------------------------------------------------------------- inputs
Commands == {"upload", "list", "erase", "test", "reset", "echo"}
Builds == {"debug", "release"}
\* the in-memory emulators TestSerialPort and TestSerialPortInterface
Emulators == {"test", "test_interface"}
Mtus == {100, 107, 512}
LineLengths == {128}
SeedValues == {0, 255}
FileLens == 0..MaxFileLen

\* an image of several chunks with MTUs below the smallest first frame
LargeFileLens == {400}
EmulatorFileLens == {600}
SmallMtus == {32, 96}

NoRc == [some |-> FALSE, v |-> I128Zero]
Result(msg) == [msg |-> msg, rc |-> NoRc]
ResultRc(msg, v) == [msg |-> msg, rc |-> Some(v)]

NoBody == [map |-> FALSE, rc |-> CborAbsent, off |-> CborAbsent, images |-> FALSE]
NoRequest == [hdr |-> NoHdr, len16 |-> 0, wire |-> 0,
              body |-> [image_num |-> 0, off |-> 0, len |-> None,
                        data_sha |-> None, data |-> <<>>]]
NoResp == [kind |-> "none", hdr |-> NoHdr, body |-> NoBody, att |-> 0, chunk |-> 0]

\* the threads that call next_seq_id
Threads == 1..MaxThreads

NoWrapIn == [linelength |-> 0, op |-> "Read", group |-> "Default", id |-> 0,
             seq |-> 0, body |-> <<>>]
NotUnwrapped == [out |-> "none", err |-> "none", data |-> <<>>]
NoDeviation == [kind |-> "none", arg |-> 0]
NotParsed == [out |-> "none", err |-> "none", hdr |-> NoHdr, body |-> <<>>]

NoFitIn == [mtu |-> 0, linelength |-> 0, size |-> 0, seq |-> 0,
            build |-> "release"]
NotFitted == [out |-> "none", try_length |-> 0, hdr |-> NoHdr, len16 |-> 0,
              wire |-> 0, bodyLen |-> 0]

\* no operation has started
Quiet ==
    /\ pc = "start"
    /\ off = 0 /\ off_start = 0 /\ try_length = 0 /\ nb_retry = 0 /\ seq_id = 0
    /\ sent_blocks = 0 /\ confirmed_blocks = 0
    /\ request = NoRequest
    /\ timeout = "none"
    /\ progress = <<>>
    /\ result = Result("none")
    /\ written = <<>> /\ wire = <<>> /\ inbuf = <<>>
    /\ total_len = 0 /\ missed = 0
    /\ chunkNo = 0
    /\ lastResp = NoResp
    /\ validated = "none"

\* no thread is in next_seq_id
SeqIdle ==
    /\ tpc = [t \in Threads |-> "idle"]
    /\ ids = <<>>
    /\ inits = 0

\* the frame codec has not been called
CodecIdle ==
    /\ wrapIn = NoWrapIn
    /\ wrapped = <<>>
    /\ unwrapped = NotUnwrapped
    /\ deviation = NoDeviation
    /\ stream = <<>>
    /\ parsed = NotParsed
    /\ interfaced = NotUnwrapped

\* the fit loop has not been run on its own
FitIdle ==
    /\ fitIn = NoFitIn
    /\ fitted = NotFitted

Init ==
    /\ cmd \in Commands
    /\ IF cmd = "upload"
       THEN /\ build \in Builds
            /\ \/ /\ specs \in [nb_retry : 0..MaxRetry, linelength : LineLengths,
                                 mtu : Mtus]
                  /\ data \in {File(n) : n \in FileLens}
               \/ /\ specs \in [nb_retry : 0..MaxRetry, linelength : LineLengths,
                                 mtu : SmallMtus]
                  /\ data \in {File(n) : n \in LargeFileLens}
               \/ /\ specs \in [nb_retry : {0}, linelength : LineLengths,
                                 mtu : Mtus]
                  /\ data \in {File(n) : n \in EmulatorFileLens}
            /\ IF Len(data) \in EmulatorFileLens
               THEN dev \in [kind : Emulators, k : {0}]
               ELSE dev \in [kind : {"mock"}, k : 0..MaxRetry]
                            \cup [kind : {"any"}, k : {0}]
                            \cup [kind : Emulators, k : {0}]
       ELSE /\ build = "release"
            /\ specs \in [nb_retry : {0}, linelength : LineLengths, mtu : {512}]
            /\ data = <<>>
            /\ dev = [kind |-> "any", k |-> 0]
    /\ COUNTER = [init |-> FALSE, v |-> 0]
    /\ Quiet
    /\ SeqIdle
    /\ CodecIdle
    /\ FitIdle


\* ------------------------------------------------------------- next_seq_id
\* an initialiser that runs at every access
lazy_static_unguarded(counter, seed) ==
    [counter |-> [init |-> TRUE, v |-> seed], ran |-> TRUE]

\* lazy_static!: the first access runs the initialiser, once, with a random
\* u8; every access yields the same COUNTER
lazy_static(counter, seed) ==
    IF counter.init
    THEN [counter |-> counter, ran |-> FALSE]
    ELSE [counter |-> [init |-> TRUE, v |-> seed], ran |-> TRUE]

\* an addition that does not wrap at 8 bits
fetch_add_unbounded(counter) ==
    [id |-> counter.v, counter |-> [counter EXCEPT !.v = counter.v + 1]]

\* AtomicU8::fetch_add(1): the value before the addition, which wraps
fetch_add(counter) ==
    [id |-> counter.v,
     counter |-> [counter EXCEPT !.v = (counter.v + 1) % SeqModulus]]

\* one call by a single caller: the counter is seeded with a random u8 by
\* the first call; the call returns the value before the increment
next_seq_id(counter, seed) ==
    fetch_add(lazy_static(counter, seed).counter)

\* ------------------------------------------------------------- the device
RespHdr(op, group, seq, id) ==
    [new_req(op, group, id) EXCEPT !.seq = seq]

Frame(hdr, body, att, chunk) ==
    [kind |-> "frame", hdr |-> hdr, body |-> body, att |-> att, chunk |-> chunk]

\* the length the device knows after a request: announced by the chunk at 0
Announced(req, total) ==
    IF req.hdr.id = NmpIdImage.Upload /\ req.hdr.group = "Image" /\ req.body.off = 0
    THEN req.body.len.v
    ELSE total

\* the offset a well-behaved device acknowledges: off + |data| capped at len
AckOff(req, total) == Min(req.body.off + Len(req.body.data), total)

\* the answer of a well-behaved device to a request
GoodBody(c, req, total) ==
    CASE c = "upload" -> [map |-> TRUE, rc |-> CborInt(0, 0),
                          off |-> CborInt(0, AckOff(req, total)), images |-> FALSE]
      [] c = "list"   -> [map |-> TRUE, rc |-> CborAbsent, off |-> CborAbsent,
                          images |-> TRUE]
      [] OTHER        -> [map |-> TRUE, rc |-> CborInt(0, 0), off |-> CborAbsent,
                          images |-> FALSE]

GoodOp(req) == IF req.hdr.op = "Read" THEN "ReadRsp" ELSE "WriteRsp"

GoodResponse(c, req, total, att, chunk) ==
    Frame(RespHdr(GoodOp(req), req.hdr.group, req.hdr.seq, req.hdr.id),
          GoodBody(c, req, total), att, chunk)

\* total_len when the emulator caps the offset: TestSerialPort keeps it in
\* the port, TestSerialPortInterface in a local of write_all that starts
\* at 0
emulator_total_len(kind, req, total) ==
    IF kind = "test" THEN Announced(req, total)
    ELSE IF req.body.off = 0 THEN req.body.len.v ELSE 0

\* off_value of the emulators: the offset of the request plus data.len(),
\* where data is the request without length prefix and CRC (the header and
\* the CBOR body), capped at total_len
off_value(kind, req, total) ==
    LET v == req.body.off + HdrLen + ImageUploadReqLen(req.body)
        cap == emulator_total_len(kind, req, total)
    IN  IF v > cap THEN cap ELSE v

\* the response the emulators put into their buffer for an upload request
EmulatorResponse(kind, req, total, att, chunk) ==
    Frame(RespHdr("WriteRsp", "Image", req.hdr.seq, NmpIdImage.State),
          [map |-> TRUE, rc |-> CborInt(0, 0),
           off |-> CborInt(0, off_value(kind, req, total)), images |-> FALSE],
          att, chunk)

\* rc and off values an arbitrary device may put in the response map
RcValues ==
    {CborAbsent, CborText, CborInt(0, 0), CborInt(0, 3), CborInt(0, -1),
     CborInt(1, 0)}

OffValues(c, req, total) ==
    IF c = "upload"
    THEN {CborAbsent}
         \cup {CborInt(0, v) : v \in {-1, 0, req.body.off, AckOff(req, total),
                                      total, total + 1}}
    ELSE {CborAbsent}

Bodies(c, req, total) ==
    {NoBody} \cup
    [map : {TRUE}, rc : RcValues, off : OffValues(c, req, total),
     images : IF c = "list" THEN BOOLEAN ELSE {FALSE}]

Headers(req) ==
    LET good == RespHdr(GoodOp(req), req.hdr.group, req.hdr.seq, req.hdr.id)
    IN  {good,
         [good EXCEPT !.seq = (req.hdr.seq + SeqModulus - 1) % SeqModulus],
         [good EXCEPT !.group = CHOOSE g \in NmpGroups : g # req.hdr.group],
         [good EXCEPT !.op = CHOOSE o \in {"ReadRsp", "WriteRsp"} : o # good.op]}

\* what an arbitrary device may answer in time to a request: a frame whose
\* header or whose body is not the one of a well-behaved device, or bytes
\* that are no frame at all
Responses(c, req, total, att, chunk) ==
    LET good == GoodResponse(c, req, total, att, chunk)
    IN  {Frame(h, good.body, att, chunk) : h \in Headers(req)}
        \cup {Frame(good.hdr, b, att, chunk) : b \in Bodies(c, req, total)}
        \cup {[kind |-> k, hdr |-> NoHdr, body |-> NoBody, att |-> att,
               chunk |-> chunk] : k \in {"garbled", "unknown_enum"}}

\* ------------------------------------------------------------------ upload
Terminal == {"done", "failed", "panic"}

Finish(p, res) ==
    /\ pc' = p
    /\ result' = res

\* upload up to the first chunk: the port is opened, the file is read
UploadStart ==
    /\ pc = "start" /\ cmd = "upload"
    /\ timeout' = "initial"
    /\ off' = 0 /\ sent_blocks' = 0 /\ confirmed_blocks' = 0
    /\ pc' = "chunk"
    /\ UNCHANGED <<config, seqVars, codecVars, fitVars,
                   COUNTER, off_start, try_length, nb_retry, seq_id,
                   request, progress, result, portVars, chunkNo, lastResp,
                   validated>>

\* the head of the outer loop: a new chunk with its own retries and seq
ChunkStart ==
    /\ pc = "chunk"
    /\ chunkNo < MaxChunks
    /\ \E seed \in SeedValues :
          LET n == next_seq_id(COUNTER, seed)
          IN  /\ seq_id' = n.id
              /\ COUNTER' = n.counter
    /\ nb_retry' = specs.nb_retry
    /\ off_start' = off
    /\ try_length' = specs.mtu
    /\ chunkNo' = chunkNo + 1
    /\ lastResp' = NoResp
    /\ validated' = "none"
    /\ pc' = "fit"
    /\ UNCHANGED <<config, seqVars, codecVars, fitVars,
                   off, sent_blocks, confirmed_blocks, request, timeout,
                   progress, result, portVars>>

\* one iteration of the inner loop up to the send
FitStep ==
    /\ pc = "fit"
    /\ LET f == FitIteration(build, specs, data, off, try_length, seq_id)
       IN  /\ try_length' = f.try_length
           /\ CASE f.out = "panic" ->
                     Finish("panic", Result("panic")) /\ UNCHANGED request
                [] f.out = "bail" ->
                     Finish("failed", Result("MTU too small")) /\ UNCHANGED request
                [] f.out = "continue" ->
                     UNCHANGED <<pc, result, request>>
                [] f.out = "send" ->
                     /\ request' = f.request
                     /\ pc' = "drain"
                     /\ UNCHANGED result
    /\ UNCHANGED <<config, seqVars, codecVars, fitVars,
                   COUNTER, off, off_start, nb_retry, seq_id, sent_blocks,
                   confirmed_blocks, timeout, progress, portVars, chunkNo,
                   lastResp, validated>>

\* ------------------------------------------------------ one-shot requests
OneShotOp(c) == IF c = "list" THEN "Read" ELSE "Write"
OneShotGroup(c) == IF c \in {"reset", "echo"} THEN "Default" ELSE "Image"
OneShotId(c) ==
    CASE c = "list" -> NmpIdImage.State
      [] c = "test" -> NmpIdImage.State
      [] c = "erase" -> NmpIdImage.Erase
      [] c = "reset" -> NmpIdDefault.Reset
      [] c = "echo" -> NmpIdDefault.Echo

\* bytes of the CBOR body: an empty map, ImageStateReq with a 32-byte hash
\* and no confirm, ImageEraseReq without slot, {"d": a 2-byte message}
OneShotBodyLen(c) ==
    CASE c = "test" -> 1 + CborTextLen(4) + CborBytesLen(ShaLen)
      [] c = "echo" -> 1 + CborTextLen(1) + CborTextLen(2)
      [] OTHER -> 1

\* list, erase, test, reset, echo up to transceive
OneShotStart ==
    /\ pc = "start" /\ cmd # "upload"
    /\ timeout' = "initial"
    /\ \E seed \in SeedValues :
          LET n == next_seq_id(COUNTER, seed)
              enc == encode_request(specs.linelength, OneShotOp(cmd),
                                    OneShotGroup(cmd), OneShotId(cmd),
                                    OneShotBodyLen(cmd), n.id)
          IN  /\ seq_id' = n.id
              /\ COUNTER' = n.counter
              /\ request' = [NoRequest EXCEPT !.hdr = enc.hdr,
                                !.len16 = enc.len16, !.wire = enc.wire]
    /\ pc' = "drain"
    /\ UNCHANGED <<config, seqVars, codecVars, fitVars,
                   off, off_start, try_length, nb_retry, sent_blocks,
                   confirmed_blocks, progress, result, portVars, chunkNo,
                   lastResp, validated>>

\* -------------------------------------------------------------- transceive
\* the input buffer is emptied (upload counts the block as sent before):
\* bytes_to_read() is asked once and that many bytes are read.  What is in
\* the buffer at that moment is discarded; a late response that arrives
\* while the bytes are read is not counted and stays in the buffer.
Drain ==
    /\ pc = "drain"
    /\ sent_blocks' = IF cmd = "upload" THEN sent_blocks + 1 ELSE sent_blocks
    /\ \/ /\ inbuf' = <<>>
          /\ UNCHANGED wire
       \/ /\ wire # <<>>
          /\ inbuf' = <<Head(wire)>>
          /\ wire' = Tail(wire)
    /\ pc' = "write"
    /\ UNCHANGED <<config, seqVars, codecVars, fitVars,
                   COUNTER, off, off_start, try_length, nb_retry, seq_id,
                   confirmed_blocks, request, timeout, progress, result,
                   written, total_len, missed, chunkNo, lastResp,
                   validated>>

\* a transceive that returns to its caller without reading a result
read_result_skipped == "drain"

\* transceive goes on to read the result as soon as the request is written
read_result == "read"

\* the request is written; the device receives it and answers in time,
\* late, or not at all
Write ==
    /\ pc = "write"
    /\ written' = Append(written, [req |-> request, chunk |-> chunkNo])
    /\ total_len' = Announced(request, total_len)
    /\ LET att == Len(written) + 1
           good == GoodResponse(cmd, request, total_len', att, chunkNo)
       IN  IF dev.kind \in Emulators
           THEN /\ inbuf' = Append(inbuf,
                                   EmulatorResponse(dev.kind, request, total_len,
                                                    att, chunkNo))
                /\ UNCHANGED <<missed, wire>>
           ELSE IF dev.kind = "mock"
           THEN IF missed < dev.k
                THEN /\ missed' = missed + 1
                     /\ UNCHANGED <<inbuf, wire>>
                ELSE /\ missed' = 0
                     /\ inbuf' = Append(inbuf, good)
                     /\ UNCHANGED wire
           ELSE /\ UNCHANGED missed
                /\ \/ UNCHANGED <<inbuf, wire>>
                   \/ \E r \in Responses(cmd, request, total_len', att, chunkNo) :
                         /\ inbuf' = Append(inbuf, r)
                         /\ UNCHANGED wire
                   \/ /\ Len(wire) < MaxWire
                      /\ wire' = Append(wire, good)
                      /\ UNCHANGED inbuf
    /\ pc' = read_result
    /\ UNCHANGED <<config, seqVars, codecVars, fitVars,
                   COUNTER, uploadVars, request, timeout, result,
                   lastResp, validated>>

\* a late response arrives: the read it was meant for has timed out.  What
\* arrives before the drain is discarded by it, whenever it arrived; what
\* arrives behind a response that waits to be read stays in the buffer up
\* to the next drain: both arrivals are taken at the drain.
Deliver ==
    /\ wire # <<>>
    /\ \/ pc \in {"drain", "write"}
       \/ pc = "read" /\ inbuf = <<>> /\ Head(wire).att < Len(written)
    /\ inbuf' = Append(inbuf, Head(wire))
    /\ wire' = Tail(wire)
    /\ UNCHANGED <<config, seqVars, codecVars, fitVars,
                   COUNTER, pc, uploadVars, request, timeout, result,
                   written, total_len, missed, lastResp, validated>>

\* a timeout path that retries without consuming a retry
ReadTimeoutNoCount ==
    /\ pc = "read"
    /\ inbuf = <<>>
    /\ IF cmd = "upload"
       THEN /\ pc' = "fit"
            /\ UNCHANGED result
       ELSE Finish("failed", Result("Operation timed out"))
    /\ UNCHANGED <<config, seqVars, codecVars, fitVars,
                   COUNTER, off, off_start, try_length, nb_retry, seq_id,
                   sent_blocks, confirmed_blocks, request, timeout, progress,
                   portVars, chunkNo, lastResp, validated>>

\* a timeout path that draws a new sequence id for the retransmission
ReadTimeoutNewSeq ==
    /\ pc = "read"
    /\ inbuf = <<>>
    /\ IF cmd = "upload" /\ nb_retry # 0
       THEN /\ nb_retry' = nb_retry - 1
            /\ seq_id' = COUNTER.v
            /\ COUNTER' = [COUNTER EXCEPT !.v = (COUNTER.v + 1) % SeqModulus]
            /\ pc' = "fit"
            /\ UNCHANGED result
       ELSE /\ Finish("failed", Result("Operation timed out"))
            /\ UNCHANGED <<nb_retry, seq_id, COUNTER>>
    /\ UNCHANGED <<config, seqVars, codecVars, fitVars,
                   off, off_start, try_length,
                   sent_blocks, confirmed_blocks, request, timeout, progress,
                   portVars, chunkNo, lastResp, validated>>

\* a guard that takes every error of transceive for a missed answer
missed_answer_any(e) == TRUE

\* the guard of the retry arm: the text of the error is that of a timeout
missed_answer(e) == e = "Operation timed out"

\* no byte arrives before the read timeout: transceive returns
\* "Operation timed out"; upload retries while nb_retry allows
ReadTimeout ==
    /\ pc = "read"
    /\ inbuf = <<>>
    /\ IF cmd = "upload" /\ missed_answer("Operation timed out") /\ nb_retry # 0
       THEN /\ nb_retry' = nb_retry - 1
            /\ pc' = "fit"
            /\ UNCHANGED result
       ELSE /\ Finish("failed", Result("Operation timed out"))
            /\ UNCHANGED nb_retry
    /\ UNCHANGED <<config, seqVars, codecVars, fitVars,
                   COUNTER, off, off_start, try_length, seq_id,
                   sent_blocks, confirmed_blocks, request, timeout, progress,
                   portVars, chunkNo, lastResp, validated>>


\* a frame is in the input buffer: transceive decodes it.  A frame that is
\* not well-formed is an error, a header with an unknown op or group makes
\* NmpHdr::deserialize(..).unwrap() panic.
Received(r) ==
    /\ pc = "read"
    /\ inbuf # <<>>
    /\ r = Head(inbuf)
    /\ inbuf' = Tail(inbuf)
    /\ lastResp' = r

Undecoded(r) ==
    CASE r.kind = "garbled" -> Finish("failed", Result("framing error"))
      [] r.kind = "unknown_enum" -> Finish("panic", Result("panic"))

\* ------------------------------------------- upload: the response of a chunk
\* a scan that compares the rc after a cast to u32, as get_rc does
upload_rc_u32(response_body) ==
    IF response_body.map /\ response_body.rc.t = "int"
       /\ AsU32(IntOf(response_body.rc)) # I128Zero
    THEN Some(AsU32(IntOf(response_body.rc)))
    ELSE [some |-> FALSE, v |-> I128Zero]

\* the rc that makes the scan of the response map bail
upload_rc(response_body) ==
    IF response_body.map /\ response_body.rc.t = "int"
       /\ IntOf(response_body.rc) # I128Zero
    THEN Some(IntOf(response_body.rc))
    ELSE NoRc

\* the offset after the scan of the response map: off_val as usize
upload_off(response_body, o) ==
    IF response_body.map /\ response_body.off.t = "int"
    THEN response_body.off.r
    ELSE o

\* a stall test that only sees an offset that went backwards
wrong_offset_backwards(o_start, o) == UGt(o_start, o)

\* the test after the inner loop: the device did not move the offset
wrong_offset(o_start, o) == o_start = o

\* a set_timeout that leaves the timeout of the port as it is
set_timeout_kept(current) == current

\* port.set_timeout(subsequent_timeout_ms): the read timeout after the call
set_timeout(current) == "subsequent"

\* the error of a frame that cannot be decoded reaches the match of upload:
\* it is retried when the guard of the retry arm takes it and retries remain
Retried(r) ==
    /\ r.kind = "garbled"
    /\ missed_answer("framing error")
    /\ nb_retry # 0

UploadResponse ==
    /\ cmd = "upload"
    /\ pc = "read" /\ inbuf # <<>>
    /\ \E r \in {Head(inbuf)} :
        /\ Received(r)
        /\ nb_retry' = IF Retried(r) THEN nb_retry - 1 ELSE nb_retry
        /\ IF r.kind # "frame"
           THEN /\ IF Retried(r)
                   THEN pc' = "fit" /\ UNCHANGED result
                   ELSE Undecoded(r)
                /\ UNCHANGED <<validated, off, confirmed_blocks, progress, timeout>>
           ELSE IF ~check_answer(request.hdr, r.hdr)
           THEN /\ validated' = "no"
                /\ Finish("failed", Result("wrong answer types"))
                /\ UNCHANGED <<off, confirmed_blocks, progress, timeout>>
           ELSE /\ validated' = "yes"
                /\ IF upload_rc(r.body).some
                   THEN /\ Finish("failed", ResultRc("rc", upload_rc(r.body).v))
                        /\ UNCHANGED <<off, confirmed_blocks, progress, timeout>>
                   ELSE /\ off' = upload_off(r.body, off)
                        /\ confirmed_blocks' = confirmed_blocks + 1
                        /\ IF wrong_offset(off_start, off')
                           THEN /\ Finish("failed", Result("wrong offset received"))
                                /\ UNCHANGED <<progress, timeout>>
                           ELSE /\ progress' = Append(progress, <<off', Len(data)>>)
                                /\ IF off' = Len(data)
                                   THEN /\ Finish("done", Result("ok"))
                                        /\ UNCHANGED timeout
                                   ELSE /\ timeout' = set_timeout(timeout)
                                        /\ pc' = "chunk"
                                        /\ UNCHANGED result
    /\ UNCHANGED <<config, seqVars, codecVars, fitVars,
                   COUNTER, off_start, try_length, seq_id,
                   sent_blocks, request, written, wire, total_len, missed,
                   chunkNo>>

\* ------------------------------------------------- erase, test: the response
EraseTestOutcome(r) ==
    IF ~check_answer(request.hdr, r.hdr)
    THEN [v |-> "no", pc |-> "failed", res |-> Result("wrong answer types")]
    ELSE LET rc == get_rc(r.body)
         IN  IF rc.some /\ rc.v # I128Zero
             THEN [v |-> "yes", pc |-> "failed", res |-> ResultRc("Error from device", rc.v)]
             ELSE [v |-> "yes", pc |-> "done", res |-> Result("ok")]

\* list: the response is deserialised into ImageStateRsp, rc is not looked at
ListOutcome(r) ==
    IF ~check_answer(request.hdr, r.hdr)
    THEN [v |-> "no", pc |-> "failed", res |-> Result("wrong answer types")]
    ELSE IF r.body.map /\ r.body.images
         THEN [v |-> "yes", pc |-> "done", res |-> Result("ok")]
         ELSE [v |-> "yes", pc |-> "failed", res |-> Result("unexpected answer from device")]

\* reset and echo check the header themselves and only print the body
ResetOutcome(r, seq) ==
    IF r.hdr.seq # seq
    THEN [v |-> "no", pc |-> "failed", res |-> Result("wrong sequence number")]
    ELSE IF r.hdr.op # "WriteRsp" \/ r.hdr.group # "Default"
         THEN [v |-> "no", pc |-> "failed", res |-> Result("wrong response types")]
         ELSE [v |-> "yes", pc |-> "done", res |-> Result("ok")]

EchoOutcome(r, seq) ==
    IF r.hdr.seq # seq
    THEN [v |-> "no", pc |-> "failed", res |-> Result("wrong sequence number")]
    ELSE IF r.hdr.op # "ReadRsp" \/ r.hdr.group # "Default"
         THEN [v |-> "no", pc |-> "failed", res |-> Result("wrong response types")]
         ELSE [v |-> "yes", pc |-> "done", res |-> Result("ok")]

OneShotOutcome(c, r, seq) ==
    CASE c \in {"erase", "test"} -> EraseTestOutcome(r)
      [] c = "list" -> ListOutcome(r)
      [] c = "reset" -> ResetOutcome(r, seq)
      [] c = "echo" -> EchoOutcome(r, seq)

OneShotResponse(c) ==
    /\ cmd = c
    /\ pc = "read" /\ inbuf # <<>>
    /\ \E r \in {Head(inbuf)} :
        /\ Received(r)
        /\ IF r.kind # "frame"
           THEN Undecoded(r) /\ UNCHANGED validated
           ELSE LET outcome == OneShotOutcome(c, r, seq_id)
                IN  /\ validated' = outcome.v
                    /\ Finish(outcome.pc, outcome.res)
    /\ UNCHANGED <<config, seqVars, codecVars, fitVars,
                   COUNTER, uploadVars, request, timeout, written, wire,
                   total_len, missed>>

EraseResponse == OneShotResponse("erase")
TestResponse == OneShotResponse("test")
ListResponse == OneShotResponse("list")
ResetResponse == OneShotResponse("reset")
EchoResponse == OneShotResponse("echo")

\* ----------------------------------------------------------- specification
Next ==
    \/ UploadStart
    \/ ChunkStart
    \/ FitStep
    \/ OneShotStart
    \/ Drain
    \/ Write
    \/ Deliver
    \/ ReadTimeout
    \/ UploadResponse
    \/ EraseResponse
    \/ TestResponse
    \/ ListResponse
    \/ ResetResponse
    \/ EchoResponse

Spec == Init /\ [][Next]_vars


\* ------------------------------------------- next_seq_id, several callers
\* everything but the counter and its callers
engineVars == <<config, pc, uploadVars, request, timeout, result, portVars,
                lastResp, validated>>

\* no operation runs: the callers are threads of a program that only
\* draws sequence ids, as test_next_seq_id does
NoEngine ==
    /\ cmd = "none"
    /\ build = "release"
    /\ specs = [nb_retry |-> 0, linelength |-> 128, mtu |-> 512]
    /\ data = <<>>
    /\ dev = [kind |-> "any", k |-> 0]
    /\ Quiet

SeqInit ==
    /\ NoEngine
    /\ COUNTER = [init |-> FALSE, v |-> 0]
    /\ SeqIdle
    /\ CodecIdle
    /\ FitIdle

\* calls that have started and not yet added
Pending == Cardinality({t \in Threads : tpc[t] = "ready"})

\* thread t enters next_seq_id and accesses COUNTER: the initialiser runs
\* under a lock if no thread has run it
Deref(t) ==
    /\ tpc[t] = "idle"
    /\ Len(ids) + Pending < MaxCalls
    /\ \E seed \in SeedValues :
          LET l == lazy_static(COUNTER, seed)
          IN  /\ COUNTER' = l.counter
              /\ inits' = IF l.ran THEN inits + 1 ELSE inits
    /\ tpc' = [tpc EXCEPT ![t] = "ready"]
    /\ UNCHANGED <<engineVars, codecVars, fitVars, ids>>

\* thread t adds one to COUNTER and returns the value it found
FetchAdd(t) ==
    /\ tpc[t] = "ready"
    /\ LET n == fetch_add(COUNTER)
       IN  /\ COUNTER' = n.counter
           /\ ids' = Append(ids, n.id)
    /\ tpc' = [tpc EXCEPT ![t] = "idle"]
    /\ UNCHANGED <<engineVars, codecVars, fitVars, inits>>

SeqNext ==
    \/ \E t \in Threads : Deref(t)
    \/ \E t \in Threads : FetchAdd(t)

SeqSpec == SeqInit /\ [][SeqNext]_vars


\* ------------------------------------------- the frame codec as a program
\* the arguments the codec is called with
CodecLineLengths == {16, 17, 18, 19, 20, 128}
BodyBytes == {0, 255}
CodecBodies == UNION {[1..n -> BodyBytes] : n \in 0..MaxBodyLen}

\* what a device does with its answer: headers of every op and group with
\* three settings of the other fields, values outside the enums, a flipped
\* bit of the CRC, frames that end early, bytes around the markers
DeviceHeaders ==
    {[op |-> o, flags |-> v.flags, len |-> v.len, group |-> g, seq |-> v.seq,
      id |-> v.id] :
        o \in NmpOps, g \in DOMAIN NmpGroupCodes,
        v \in {[flags |-> 0, len |-> 0, seq |-> 0, id |-> 0],
               [flags |-> 1, len |-> 258, seq |-> 3, id |-> 4],
               [flags |-> 255, len |-> 65535, seq |-> 255, id |-> 255]}}

HeaderDeviations == [kind : {"hdr"}, arg : DeviceHeaders]

FrameDeviations ==
    [kind : {"unknown_op"}, arg : {4, 255}]
        \cup [kind : {"unknown_group"}, arg : {10, 65535}]
        \cup [kind : {"crc_bit"}, arg : 0..15]
        \cup [kind : {"short"}, arg : 0..(HdrLen - 1)]
        \cup [kind : {"empty", "cr_cont"}, arg : {0}]
        \cup [kind : {"underlength"}, arg : {2, 3}]
        \cup [kind : {"junk_before"}, arg : {0, 13, 65}]

\* the arguments of encode_request for a frame that a deviation is applied to
DeviatedArgs ==
    [linelength : {16, 17, 128}, op : {"WriteRsp"}, group : {"Image"},
     id : {NmpIdImage.Upload}, seq : {0}, body : {<<>>, <<0>>, <<0, 255, 0>>}]

CodecInit ==
    /\ NoEngine
    /\ COUNTER = [init |-> FALSE, v |-> 0]
    /\ SeqIdle
    /\ \/ /\ wrapIn \in [linelength : CodecLineLengths, op : {"Write"},
                          group : {"Image"}, id : {NmpIdImage.Upload},
                          seq : SeedValues, body : CodecBodies]
          /\ deviation = NoDeviation
       \/ /\ wrapIn \in {a \in DeviatedArgs :
                             a.linelength # 17 /\ a.body = <<0>>}
          /\ deviation \in HeaderDeviations
       \/ /\ wrapIn \in DeviatedArgs
          /\ deviation \in FrameDeviations
    /\ wrapped = <<>>
    /\ unwrapped = NotUnwrapped
    /\ stream = <<>>
    /\ parsed = NotParsed
    /\ interfaced = NotUnwrapped
    /\ FitIdle

\* encode_request is applied to the arguments
Wrap ==
    /\ wrapped = <<>>
    /\ wrapped' = EncodeBytes(wrapIn.linelength, wrapIn.op, wrapIn.group,
                              wrapIn.id, wrapIn.body, wrapIn.seq)
    /\ UNCHANGED <<engineVars, COUNTER, seqVars, fitVars, wrapIn, unwrapped,
                   deviation, stream, parsed, interfaced>>

\* the frame reaches the port as the device sends it
Send ==
    /\ wrapped # <<>>
    /\ stream = <<>>
    /\ stream' = Deviated(wrapIn, wrapped, deviation)
    /\ UNCHANGED <<engineVars, COUNTER, seqVars, fitVars, wrapIn, wrapped,
                   unwrapped, deviation, parsed, interfaced>>

\* transceive reads the bytes of the port: the read loop and the checks of
\* the frame, then the header and the body
Unwrap ==
    /\ stream # <<>>
    /\ unwrapped = NotUnwrapped
    /\ unwrapped' = ReadFrame(stream, 1, <<>>, 0)
    /\ parsed' = ParseFrame(unwrapped')
    /\ UNCHANGED <<engineVars, COUNTER, seqVars, fitVars, wrapIn, wrapped,
                   deviation, stream, interfaced>>

\* the codec of the interface layer on the same payload: serial_port_encode,
\* then serial_port_read_and_decode on the bytes it returned
Interface ==
    /\ interfaced = NotUnwrapped
    /\ interfaced' = serial_port_read_and_decode(
                         serial_port_encode(Payload(wrapIn), wrapIn.linelength),
                         1, <<>>, 0)
    /\ UNCHANGED <<engineVars, COUNTER, seqVars, fitVars, wrapIn, wrapped,
                   unwrapped, deviation, stream, parsed>>

CodecNext == Wrap \/ Send \/ Unwrap \/ Interface

CodecSpec == CodecInit /\ [][CodecNext]_vars


\* ---------------------------------------- the fit loop of upload, on its own
\* the first chunk of files around the sizes at which the lengths of a
\* frame pass 16 bits, with MTUs below and above 65535 and lines long enough
\* for a frame of a dozen lines
FitMtus == {512, 100000, 200000}
FitLineLengths == {8192}
FitSizes == (0..MaxFileLen) \cup (65455..65470) \cup {70000}

FitInit ==
    /\ NoEngine
    /\ COUNTER = [init |-> FALSE, v |-> 0]
    /\ SeqIdle
    /\ CodecIdle
    /\ fitIn \in [mtu : FitMtus, linelength : FitLineLengths, size : FitSizes,
                  seq : SeedValues, build : Builds]
    /\ fitted = NotFitted

\* one iteration of the inner loop of upload for the chunk at offset 0: a
\* request that fits is handed to transceive, which writes it
FitProbe ==
    /\ fitted.out \in {"none", "continue"}
    /\ LET tl == IF fitted.out = "none" THEN fitIn.mtu ELSE fitted.try_length
           f == FitIteration(fitIn.build,
                             [nb_retry |-> 0, linelength |-> fitIn.linelength,
                              mtu |-> fitIn.mtu],
                             File(fitIn.size), 0, tl, fitIn.seq)
       IN  fitted' =
               IF f.out = "send"
               THEN [out |-> "send", try_length |-> f.try_length,
                     hdr |-> f.request.hdr, len16 |-> f.request.len16,
                     wire |-> f.request.wire,
                     bodyLen |-> ImageUploadReqLen(f.request.body)]
               ELSE [NotFitted EXCEPT !.out = f.out,
                                      !.try_length = f.try_length]
    /\ UNCHANGED <<engineVars, COUNTER, seqVars, codecVars, fitIn>>

FitNext == FitProbe

FitSpec == FitInit /\ [][FitNext]_vars


\* ================================================================== claims
Uploading == cmd = "upload"

\* the requests written for chunk c
Attempts(c) == Cardinality({i \in DOMAIN written : written[i].chunk = c})

\* a terminal state never writes again
NoWriteAfterEnd == [][(pc \in Terminal) => UNCHANGED written]_vars

\* the device of the claims C1 and C3: it leaves k requests of every chunk
\* unanswered and then acknowledges off + |data| capped at len
MockDevice(k) == Uploading /\ dev.kind = "mock" /\ dev.k = k

\* C1: with a device that answers every upload request with rc = 0 and
\* off' = min(off + |data|, len), upload ends with success, off = |D| and one
\* confirmed transaction per chunk, none of them lost (the outcome
\* "MTU too small" of a too small configuration apart).
C1_HonestUploadSucceeds ==
    (MockDevice(0) /\ pc \in Terminal /\ result.msg # "MTU too small")
        => /\ result.msg = "ok"
           /\ off = Len(data)
           /\ confirmed_blocks = Len(written)
           /\ sent_blocks = confirmed_blocks
           /\ (Len(data) = 0 => Len(written) = 0)

\* C3: with a device that times out exactly k <= nb_retry times on every
\* chunk and then answers correctly, upload ends with success and
\* sent_blocks - confirmed_blocks = k * chunks.
C3_RetryAccounting ==
    (Uploading /\ dev.kind = "mock" /\ dev.k <= specs.nb_retry
     /\ pc \in Terminal /\ result.msg # "MTU too small")
        => /\ result.msg = "ok"
           /\ off = Len(data)
           /\ sent_blocks - confirmed_blocks = dev.k * confirmed_blocks

\* the offset a response leaves the upload with, when sent from offset o
AnsweredOff(r, o) ==
    IF r.body.map /\ r.body.off.t = "int" THEN r.body.off.r ELSE o

\* C2: a response to a chunk whose off equals the offset the chunk was sent
\* from, or that carries no off, makes upload fail, with "wrong offset
\* received" when the response is valid and reports no error, and no
\* request is written afterwards.
C2_StallFails ==
    /\ [](Uploading /\ lastResp.kind = "frame"
          /\ AnsweredOff(lastResp, request.body.off) = request.body.off
            => /\ pc = "failed"
               /\ (validated = "yes" /\ ~upload_rc(lastResp.body).some
                     => result.msg = "wrong offset received"))
    /\ NoWriteAfterEnd

C2_Witness ==
    /\ Uploading /\ lastResp.kind = "frame" /\ validated = "yes"
    /\ lastResp.body.off.t = "int"
    /\ lastResp.body.off.r = request.body.off
    /\ request.body.off > 0
    /\ Len(request.body.data) > 0
    /\ result.msg = "wrong offset received"

\* C4: a chunk is written at most nb_retry + 1 times, every timed-out attempt
\* consumes one retry, a timeout without retries left is returned as the
\* timeout error, and every chunk starts with the full budget.
C4_RetryBudget ==
    /\ [](Uploading =>
            /\ \A c \in 1..chunkNo : Attempts(c) <= specs.nb_retry + 1
            /\ pc \in {"fit", "drain", "write"}
                 => nb_retry = specs.nb_retry - Attempts(chunkNo)
            /\ pc = "read" => nb_retry = specs.nb_retry - (Attempts(chunkNo) - 1)
            /\ result.msg = "Operation timed out"
                 => nb_retry = 0 /\ Attempts(chunkNo) = specs.nb_retry + 1)
    /\ [][Uploading /\ pc = "read" /\ inbuf = <<>> /\ pc' # "read" /\ nb_retry = 0
            => pc' = "failed" /\ result'.msg = "Operation timed out"]_vars

C4_Witness ==
    /\ Uploading /\ chunkNo = 2 /\ specs.nb_retry >= 1
    /\ Attempts(1) >= 2
    /\ Attempts(2) = specs.nb_retry + 1
    /\ result.msg = "Operation timed out"

\* C5: a retransmission after a timeout is the request of the timed-out
\* attempt, with the same seq, off and data, and the first request of every
\* chunk carries the value next_seq_id returned for that chunk.
C5_Retransmission ==
    /\ \A i \in 1..(Len(written) - 1) :
          IF written[i + 1].chunk = written[i].chunk
          THEN /\ written[i + 1].req.hdr.seq = written[i].req.hdr.seq
               /\ written[i + 1].req.body.off = written[i].req.body.off
               /\ written[i + 1].req.body.data = written[i].req.body.data
          ELSE written[i + 1].req.hdr.seq =
                   (written[i].req.hdr.seq + 1) % SeqModulus
    /\ (Uploading /\ chunkNo >= 1)
          => /\ seq_id = (COUNTER.v + SeqModulus - 1) % SeqModulus
             /\ (pc \in {"drain", "write", "read"} => request.hdr.seq = seq_id)

C5_Witness ==
    /\ Uploading /\ Len(written) = 3
    /\ written[1].chunk = 1 /\ written[2].chunk = 1 /\ written[3].chunk = 2
    /\ written[2].req = written[1].req
    /\ Len(written[1].req.body.data) > 0
    /\ written[3].req.hdr.seq = 0 /\ written[1].req.hdr.seq = 255


\* the response header answers the request header: same seq, same group and
\* the response op of the request op
Matches(request_header, response_header) ==
    /\ response_header.seq = request_header.seq
    /\ response_header.group = request_header.group
    /\ \/ request_header.op = "Read" /\ response_header.op = "ReadRsp"
       \/ request_header.op = "Write" /\ response_header.op = "WriteRsp"

\* C6: in every operation a response is accepted exactly when its seq and
\* group are those of the request and its op is ReadRsp for a Read request,
\* WriteRsp for a Write request; a response that is not accepted makes the
\* operation fail.
C6_ResponseValidation ==
    validated # "none"
        => /\ validated = "yes" <=> Matches(request.hdr, lastResp.hdr)
           /\ validated = "no" => pc = "failed"

\* C7: the offset upload adopts comes from a response with the seq of the
\* request of the chunk; a late response to an attempt of an earlier chunk,
\* which echoes the seq of that attempt, is not adopted and fails the upload.
LateFromEarlierChunk(r) ==
    /\ r.kind = "frame"
    /\ r.chunk < chunkNo
    /\ r.hdr.seq = written[r.att].req.hdr.seq

NonZeroRc(r) ==
    r.kind = "frame" /\ r.body.map /\ r.body.rc.t = "int" /\ IntOf(r.body.rc) # I128Zero

\* C8: in upload a validated response with an integer rc # 0 fails the
\* upload: the chunk is not confirmed, the progress callback is not called
\* for it and nothing is written afterwards.
C8_UploadRcFails ==
    /\ [](Uploading /\ validated = "yes" /\ NonZeroRc(lastResp)
            => /\ pc = "failed"
               /\ result.msg = "rc"
               /\ result.rc = Some(IntOf(lastResp.body.rc))
               /\ confirmed_blocks = chunkNo - 1
               /\ Len(progress) = chunkNo - 1)
    /\ NoWriteAfterEnd

C8_Witness ==
    /\ Uploading /\ validated = "yes" /\ NonZeroRc(lastResp)
    /\ lastResp.body.rc = CborInt(1, 0)
    /\ lastResp.body.off.t = "int" /\ lastResp.body.off.r = Len(data)
    /\ chunkNo = 2
    /\ result.msg = "rc"

\* C9: list, reset, erase and test fail with the error that carries rc when
\* the validated response is a map with an integer rc # 0.
C9_OneShotRcFails ==
    (cmd \in {"list", "reset", "erase", "test"} /\ validated = "yes"
     /\ NonZeroRc(lastResp))
        => /\ pc = "failed"
           /\ result.rc.some

\* C10: erase and test treat every integer rc # 0 as a failure, negative
\* values and values of 2^32 and more included, and report the value the
\* device sent.
C10_RcVerbatim ==
    (cmd \in {"erase", "test"} /\ validated = "yes" /\ NonZeroRc(lastResp))
        => /\ pc = "failed"
           /\ result.rc = Some(IntOf(lastResp.body.rc))

\* C11: an upload request carries len = |D| and sha = SHA-256(D) exactly
\* when its off is 0; a request with off # 0 has neither key.
C11_FirstChunkMetadata ==
    Uploading =>
        \A i \in DOMAIN written :
            LET b == written[i].req.body
            IN  /\ b.len.some <=> b.off = 0
                /\ b.data_sha.some <=> b.off = 0
                /\ b.len.some => b.len.v = Len(data)
                /\ b.data_sha.some => b.data_sha.v = Sha256(data)

C11_Witness ==
    /\ Uploading /\ Len(written) >= 2
    /\ written[1].req.body.off = 0 /\ written[1].req.body.len = Some(Len(data))
    /\ written[Len(written)].req.body.off > 0
    /\ ~written[Len(written)].req.body.len.some
    /\ ~written[Len(written)].req.body.data_sha.some

\* C12: every attempt of the first chunk runs under the initial timeout;
\* when upload goes on after a confirmed chunk the read timeout of the port
\* is the subsequent one, and every later chunk is sent under it.
C12_AdaptiveTimeout ==
    (Uploading /\ chunkNo >= 1 /\ pc \notin Terminal) =>
        /\ (chunkNo = 1 /\ pc # "chunk") => timeout = "initial"
        /\ (chunkNo >= 2 \/ pc = "chunk") => timeout = "subsequent"
        /\ pc = "chunk" => confirmed_blocks >= 1

C12_Witness ==
    /\ Uploading /\ chunkNo = 2 /\ pc = "read"
    /\ Attempts(1) = 2 /\ Attempts(2) = 2
    /\ timeout = "subsequent"

\* C13: every upload request handed to the transport has a framed length of
\* at most mtu bytes.
C13_FramedWithinMtu ==
    Uploading =>
        /\ \A i \in DOMAIN written : written[i].req.wire <= specs.mtu
        /\ pc \in {"drain", "write", "read"} => request.wire <= specs.mtu

C13_Witness ==
    /\ Uploading /\ Len(written) >= 2
    /\ Len(written[1].req.body.data) > 0
    /\ Len(written[1].req.body.data) < Len(data)
    /\ written[1].req.wire + 4 >= specs.mtu

\* C14: the fit loop never leaves try_length at zero or below after a
\* reduction and never underflows: where the reduction would do so, upload
\* fails with "MTU too small".
C14_ReductionStaysPositive ==
    /\ [][(Uploading /\ pc = "fit" /\ pc' = "fit") => try_length' > 0]_vars
    /\ [][(Uploading /\ dev.kind = "mock" /\ pc = "fit") => pc' # "panic"]_vars

\* the scenario of C15: a 400-byte image, linelength 128, MTU 96
FitScenario ==
    Uploading /\ Len(data) = 400 /\ specs.linelength = 128 /\ specs.mtu = 96

\* C15 (as stated): in that scenario the fit loop reduces try_length and
\* then sends a request; upload does not abort with "MTU too small".
C15_FitScenarioSends ==
    FitScenario => result.msg # "MTU too small"

\* C15 (amended): in that scenario the first iteration of the fit loop
\* fails with "MTU too small": the smallest first frame exceeds the MTU by
\* more than try_length, nothing is reduced and nothing is written.
C15_FitScenarioTooSmall ==
    FitScenario =>
        /\ pc \in {"start", "chunk", "fit", "failed"}
        /\ written = <<>>
        /\ pc = "fit" => try_length = specs.mtu
        /\ pc = "failed" => result.msg = "MTU too small" /\ try_length = specs.mtu

C15_Witness ==
    FitScenario /\ pc = "failed" /\ result.msg = "MTU too small" /\ chunkNo = 1

\* C16: with a device that acknowledges incrementally the progress callback
\* is called once per confirmed chunk with (off, |D|), its first arguments
\* increase strictly and its last call is (|D|, |D|).
C16_ProgressPerChunk ==
    (MockDevice(0) /\ pc \in Terminal /\ result.msg # "MTU too small")
        => /\ Len(progress) = confirmed_blocks
           /\ \A i \in DOMAIN progress : progress[i][2] = Len(data)
           /\ \A i \in 1..(Len(progress) - 1) : progress[i][1] < progress[i + 1][1]
           /\ progress # <<>>
           /\ progress[Len(progress)] = <<Len(data), Len(data)>>

\* the calls that fall in one window of 256 with the last call
Window == {j \in DOMAIN ids : j > Len(ids) - SeqModulus}

\* C17: 256 consecutive calls of next_seq_id return pairwise distinct
\* values, a permutation of 0..255, and the 257th call returns the value of
\* the first.  Stated for the last call of every prefix of the calls.
C17_SeqPermutation ==
    ids # <<>> =>
        LET n == Len(ids)
        IN  /\ ids[n] \in 0..(SeqModulus - 1)
            /\ \A j \in Window \ {n} : ids[j] # ids[n]
            /\ n >= SeqModulus => {ids[j] : j \in Window} = 0..(SeqModulus - 1)
            /\ n > SeqModulus => ids[n] = ids[n - SeqModulus]

C17_Witness ==
    /\ Len(ids) = 257
    /\ ids[1] = 255 /\ ids[2] = 0 /\ ids[256] = 254 /\ ids[257] = 255

\* C18: with concurrent callers the initialiser of COUNTER runs exactly
\* once and, in the order of the atomic additions, no two of 256 consecutive
\* calls obtain the same value, whatever the interleaving.
C18_ConcurrentUnique ==
    /\ inits <= 1
    /\ COUNTER.init <=> inits = 1
    /\ (ids # <<>> \/ Pending > 0) => inits = 1
    /\ Cardinality({ids[j] : j \in Window}) = Cardinality(Window)

C18_Witness ==
    /\ Len(ids) >= 255
    /\ \A t \in Threads : tpc[t] = "ready"
    /\ inits = 1

\* C19: the decoder of transceive, fed with the bytes encode_request made
\* of a payload, returns that payload and no error, for every line length
\* from 16 on.
C19_RoundTrip ==
    (unwrapped # NotUnwrapped /\ deviation = NoDeviation) =>
        /\ unwrapped.out = "ok"
        /\ unwrapped.data = Payload(wrapIn)

\* the lines of a byte string: what lies between the line feeds
RECURSIVE Lines(_)
Lines(bytes) ==
    LET lf == FirstLf(bytes, 1)
    IN  IF bytes = <<>> THEN <<>>
        ELSE IF lf = 0 THEN <<bytes>>
        ELSE <<SubSeq(bytes, 1, lf - 1)>> \o Lines(SubSeq(bytes, lf + 1, Len(bytes)))

\* C20: every line of the output of encode_request, its marker and its line
\* feed included, has at most linelength bytes; the first line and only the
\* first begins with 06 09, every other line begins with 04 14.
C20_LineDiscipline ==
    wrapped # <<>> =>
        LET lines == Lines(wrapped)
        IN  /\ wrapped[Len(wrapped)] = 10
            /\ \A i \in DOMAIN lines :
                  /\ Len(lines[i]) + 1 <= wrapIn.linelength
                  /\ Len(lines[i]) > 2
                  /\ SubSeq(lines[i], 1, 2) = IF i = 1 THEN <<6, 9>> ELSE <<4, 20>>

C20_Witness ==
    /\ wrapped # <<>>
    /\ wrapIn.linelength = 16
    /\ Len(Lines(wrapped)) = 2
    /\ Len(Lines(wrapped)[1]) + 1 = 15

\* the byte count of the length-level encode_request is the length of the
\* bytes
FramedLenAgrees ==
    wrapped # <<>> =>
        Len(wrapped) = encode_request(wrapIn.linelength, wrapIn.op, wrapIn.group,
                                      wrapIn.id, Len(wrapIn.body), wrapIn.seq).wire

\* C21: for every payload (header and body) of up to 64 KiB - 2 bytes the
\* 16-bit length prefix of the frame is the length of the payload plus the
\* two bytes of the CRC, not that number modulo 2^16.
C21_LengthPrefix ==
    (fitted.out = "send" /\ HdrLen + fitted.bodyLen <= U16Modulus - 2)
        => fitted.len16 = HdrLen + fitted.bodyLen + 2

\* C22: the len field of the header of every request handed to transceive
\* is the number of bytes of its CBOR body, upload bodies built with an MTU
\* above 65535 included.
C22_HeaderLen ==
    fitted.out = "send" => fitted.hdr.len = fitted.bodyLen

\* C23: a header of any op and group of the enums and any flags, len, seq
\* and id is serialised in 8 bytes, and deserialize makes the same header of
\* them, field by field.
C23_HeaderRoundTrip ==
    (deviation.kind = "hdr" /\ parsed # NotParsed)
        => /\ Len(serialize(deviation.arg)) = HdrLen
           /\ SubSeq(unwrapped.data, 1, HdrLen) = serialize(deviation.arg)
           /\ parsed.out = "ok"
           /\ parsed.hdr = deviation.arg

C23_Witness ==
    /\ deviation.kind = "hdr"
    /\ deviation.arg = [op |-> "ReadRsp", flags |-> 1, len |-> 258,
                        group |-> "PerUser", seq |-> 3, id |-> 4]
    /\ parsed.out = "ok"
    /\ parsed.hdr = deviation.arg
    /\ SubSeq(unwrapped.data, 1, HdrLen) = <<1, 1, 1, 2, 0, 64, 3, 4>>

\* C24: a frame whose CRC field differs in one bit from the CRC of its
\* payload makes transceive return the checksum error, and no header and no
\* body.
C24_CrcMismatch ==
    (deviation.kind = "crc_bit" /\ parsed # NotParsed)
        => /\ parsed.out = "error"
           /\ parsed.err = "wrong checksum"
           /\ parsed.hdr = NoHdr /\ parsed.body = <<>>

\* C25: whatever bytes the device sends, transceive returns a header and a
\* body or an error; it never aborts the process.
C25_NeverAborts ==
    parsed.out # "panic"

\* C29: bytes in front of the start marker 06 09 are skipped: the response
\* is decoded as it is without them.
C29_SkipsToMarker ==
    (deviation.kind = "junk_before" /\ unwrapped # NotUnwrapped)
        => unwrapped = ReadFrame(wrapped, 1, <<>>, 0)

\* C30: a response of several lines with a 0D in front of every
\* continuation marker 04 14 is decoded to the same payload as the response
\* without the 0D bytes.
C30_CrBeforeContinuation ==
    (deviation.kind = "cr_cont" /\ unwrapped # NotUnwrapped)
        => unwrapped = ReadFrame(wrapped, 1, <<>>, 0)

\* C26: only a read timeout inside upload is retried.  A request is written
\* again only while no response of the chunk has been decoded (every earlier
\* attempt of the chunk ended in a timeout) and only by upload: list, erase,
\* test, reset write one request per call and a timeout ends them with
\* "Operation timed out"; a response that was read either ends the call or
\* confirms the chunk, whatever retries remain; nothing is written after
\* the end.
C26_OnlyTimeoutRetried ==
    [][/\ written' # written =>
            /\ lastResp = NoResp
            /\ Uploading \/ written = <<>>
       /\ (lastResp' # lastResp /\ lastResp' # NoResp) =>
            \/ pc' \in Terminal
            \/ /\ Uploading
               /\ confirmed_blocks' = confirmed_blocks + 1
               /\ pc' = "chunk"
       /\ (~Uploading /\ pc = "read" /\ inbuf = <<>> /\ pc' # pc) =>
            /\ pc' = "failed"
            /\ result'.msg = "Operation timed out"
       /\ pc \in Terminal => UNCHANGED written]_vars

\* the first chunk was written twice after a timeout; the second chunk ends
\* the upload with a framing error while a retry remains
C26_Witness ==
    /\ Uploading
    /\ pc = "failed" /\ result.msg = "framing error"
    /\ lastResp.kind = "garbled"
    /\ chunkNo = 2 /\ Attempts(1) = 2 /\ Attempts(2) = 1
    /\ nb_retry > 0

\* a request has been written and its transaction has not ended
Outstanding == pc = "read"

\* C27: at most one request is outstanding.  A request is written only while
\* none is outstanding and is the only way to make one outstanding; it stays
\* outstanding until its transaction ends: a response has been read from
\* the port and decoded (or failed to decode), or the read timed out.
C27_SingleInFlight ==
    [][/\ written' # written =>
            /\ ~Outstanding /\ Outstanding'
            /\ Len(written') = Len(written) + 1
       /\ (~Outstanding /\ Outstanding') => written' # written
       /\ (Outstanding /\ ~Outstanding') =>
            \/ /\ inbuf # <<>>
               /\ lastResp' = Head(inbuf)
               /\ inbuf' = Tail(inbuf)
            \/ /\ inbuf = <<>>
               /\ \/ pc' = "fit" /\ nb_retry' = nb_retry - 1
                  \/ pc' = "failed" /\ result'.msg = "Operation timed out"]_vars

\* the request of the second chunk is outstanding; the first chunk took two
\* requests, the first of which timed out
C27_Witness ==
    /\ Uploading /\ Outstanding
    /\ chunkNo = 2 /\ Attempts(1) = 2 /\ Attempts(2) = 1
    /\ confirmed_blocks = 1

\* C28: before every write the input is read and discarded until none is
\* left: when the drain of transceive ends the input buffer is empty, also
\* when a late response arrives while the drain is reading.
C28_DrainedBeforeWrite ==
    [][(pc = "drain" /\ pc' = "write") => inbuf' = <<>>]_vars

\* C31: upload writes a request only while off # |D|: no written request
\* carries the offset |D|, and the upload of an empty file ends with success
\* and without a request.
C31_NoRequestAtEnd ==
    Uploading =>
        /\ \A i \in DOMAIN written : written[i].req.body.off # Len(data)
        /\ (data = <<>> /\ pc \in Terminal) => (pc = "done" /\ written = <<>>)

\* C32: the progress callback is called with (off, |D|) for every response
\* that passed check_answer and the rc scan, the one whose offset equals
\* off_start included: there is one call per confirmed block and the last
\* call reports the offset the upload stands at, also when the upload has
\* failed with "wrong offset received".
C32_ProgressBeforeStall ==
    Uploading =>
        /\ Len(progress) = confirmed_blocks
        /\ confirmed_blocks > 0 => progress[Len(progress)] = <<off, Len(data)>>
        /\ (pc = "failed" /\ result.msg = "wrong offset received") =>
               /\ progress # <<>>
               /\ progress[Len(progress)] = <<off_start, Len(data)>>

\* C33: for every payload P and every linelength with linelength - 4 a
\* positive multiple of 4, serial_port_read_and_decode returns P for the
\* frame serial_port_encode(P, linelength).
C33_InterfaceRoundTrip ==
    (interfaced # NotUnwrapped /\ (wrapIn.linelength - 4) % 4 = 0) =>
        /\ interfaced.out = "ok"
        /\ interfaced.data = Payload(wrapIn)

\* C34: the fit loop of upload ends after finitely many iterations, with a
\* frame of at most mtu bytes that is sent or with "MTU too small".  No
\* iteration aborts the program, an iteration that goes round again leaves
\* a try_length that is smaller than before and not negative (so the loop
\* cannot go round forever), and the loop is left only with a frame that
\* fits or with "MTU too small".
C34_FitLoopEnds ==
    [][pc = "fit" =>
          /\ pc' # "panic"
          /\ pc' = "fit" => (0 <= try_length' /\ try_length' < try_length)
          /\ pc' = "drain" => request'.wire <= specs.mtu
          /\ pc' = "failed" => result'.msg = "MTU too small"]_vars

\* C35: whatever the device answers, the offset of upload stays within
\* 0..|D|, and the slice D[off .. off + try_length] of every request that
\* is built lies within D: the clamped length takes it to |D| at most.
C35_OffsetInBounds ==
    Uploading =>
        /\ 0 <= off /\ off <= Len(data)
        /\ pc = "fit" =>
              LET tl == IF UGt(off + try_length, Len(data))
                        THEN Len(data) - off ELSE try_length
              IN  ~UGt(off, off + tl) /\ ~UGt(off + tl, Len(data))
        /\ \A i \in DOMAIN written :
              LET b == written[i].req.body
              IN  0 <= b.off /\ b.off + Len(b.data) <= Len(data)

\* C36: upload ends after finitely many requests whatever the device
\* answers: a chunk takes at most nb_retry + 1 requests and the offsets of
\* the chunks do not cycle, no chunk starts at an offset at which an
\* earlier chunk started (the loop would be where it was before and the
\* device could send it round again without end).
C36_OffsetsDoNotCycle ==
    Uploading =>
        /\ \A c \in 1..chunkNo : Attempts(c) <= specs.nb_retry + 1
        /\ \A i, j \in DOMAIN written :
              written[i].chunk < written[j].chunk =>
                  written[i].req.body.off # written[j].req.body.off

\* the request of chunk c that the device answered: the last one written
LastOf(c) ==
    LET is == {i \in DOMAIN written : written[i].chunk = c}
    IN  written[CHOOSE i \in is : \A k \in is : k <= i].req

\* the data fields of the confirmed requests of the chunks 1..c, in order
RECURSIVE ConfirmedData(_)
ConfirmedData(c) ==
    IF c = 0 THEN <<>> ELSE ConfirmedData(c - 1) \o LastOf(c).body.data

\* C37: every upload request that is written carries in its data field the
\* bytes of the file from its own off on; with a device that acknowledges
\* off + |data|, the data fields of the confirmed requests of a finished
\* upload, one after the other, are the file.
C37_DataIsFileSlice ==
    Uploading =>
        /\ \A i \in DOMAIN written :
              LET b == written[i].req.body
              IN  /\ 0 <= b.off
                  /\ b.data = SubSeq(data, b.off + 1, b.off + Len(b.data))
                  /\ Len(b.data) <= Len(data) - b.off
        /\ (dev.kind = "mock" /\ pc = "done") =>
              ConfirmedData(chunkNo) = data

\* an upload in two chunks has succeeded against a device that left the
\* first request of every chunk unanswered
C37_Witness ==
    /\ MockDevice(1) /\ pc = "done"
    /\ chunkNo = 2 /\ Len(written) = 4
    /\ Len(LastOf(2).body.data) > 0
    /\ LastOf(2).body.off > 0
    /\ ConfirmedData(chunkNo) = data

\* C38: each in-memory emulator acknowledges an upload request with
\* off' = min(req.off + |req.data|, the length announced with the first
\* chunk), so off' >= req.off, and an upload that succeeds against an
\* emulator has transferred every byte of the file.
C38_EmulatorAck ==
    (Uploading /\ dev.kind \in Emulators) =>
        /\ lastResp.kind = "frame" =>
              LET req == written[lastResp.att].req.body
                  ack == lastResp.body.off.r
              IN  /\ ack = Min(req.off + Len(req.data), Len(data))
                  /\ ack >= req.off
        /\ pc = "done" => ConfirmedData(chunkNo) = data

====
